---- MODULE Spec2Model ----
(***************************************************************************)
(* A model of ascii_username_generator.py: the UsernameGenerator's batch   *)
(* run (generate_usernames on a background thread started by the Generate  *)
(* button), its word lookup, word filter and username formatter, and the   *)
(* Tk state the run shares with the user interface (the two style          *)
(* selections and the results table).                                      *)
(*                                                                         *)
(* Strings that the program inspects character by character (words and    *)
(* usernames) are sequences of code points; identifiers that it only       *)
(* compares (language codes, display names, style names) are strings.      *)
(***************************************************************************)
EXTENDS Integers, Sequences, FiniteSets, TLC

(***************************************************************************)
(* Bounds of the model.                                                    *)
(***************************************************************************)
\* Generate clicks (each starts one background run) in a session.
MaxRuns == 2
\* Usernames per batch: `total = 40` in generate_usernames, scaled down.
total == 2
\* Radio-button selections in a session.
MaxSelects == 1
\* Longest word handed to the filter and the formatter when they are
\* exercised on their own.
MaxLen == 3
\* Largest min_len handed to the filter when it is exercised on its own.
MaxMinLen == 4

Runs == 1..MaxRuns

(***************************************************************************)
(* Python's str operations on code points (Latin-1 range).                 *)
(***************************************************************************)
Range(s) == {s[n] : n \in 1..Len(s)}

\* f(c) applied to every character and the results concatenated.
RECURSIVE FlatMap(_, _)
FlatMap(f(_), s) ==
    IF s = <<>> THEN <<>> ELSE f(Head(s)) \o FlatMap(f, Tail(s))

\* str.isalnum() of one character.
isalnum_char(c) ==
    \/ c \in 48..57
    \/ c \in 65..90
    \/ c \in 97..122
    \/ c \in {170, 178, 179, 181, 185, 186, 188, 189, 190}
    \/ c \in (192..255) \ {215, 247}

\* str.isalnum(): every character alphanumeric and at least one character.
isalnum(word) == word # <<>> /\ \A n \in 1..Len(word) : isalnum_char(word[n])

\* str.lower() of one character.
lower_char(c) ==
    IF c \in 65..90 \/ c \in (192..222) \ {215} THEN <<c + 32>> ELSE <<c>>

\* str.upper() of one character: sharp s becomes "SS", and two Latin-1
\* letters have their capitals outside Latin-1.
upper_char(c) ==
    IF c \in 97..122 \/ c \in (224..254) \ {247} THEN <<c - 32>>
    ELSE IF c = 223 THEN <<83, 83>>
    ELSE IF c = 255 THEN <<376>>
    ELSE IF c = 181 THEN <<924>>
    ELSE <<c>>

\* The title case of one character (the first character of str.capitalize()).
title_char(c) == IF c = 223 THEN <<83, 115>> ELSE upper_char(c)

lower(word) == FlatMap(lower_char, word)

upper(word) == FlatMap(upper_char, word)

capitalize(word) ==
    IF word = <<>> THEN <<>> ELSE title_char(Head(word)) \o lower(Tail(word))

\* The decimal digits of a natural number, as characters: str(n).
RECURSIVE str(_)
str(n) == IF n < 10 THEN <<48 + n>> ELSE str(n \div 10) \o <<48 + (n % 10)>>

\* s padded on the left with "0" to the given width.
RECURSIVE zero_pad(_, _)
zero_pad(s, width) == IF Len(s) >= width THEN s ELSE zero_pad(<<48>> \o s, width)

\* A formatter that forgets the zero padding.
format_unpadded(n, width) == str(n)

\* f"{n:0<width>d}".
format_0d(n, width) == zero_pad(str(n), width)

\* a < b for two str values: lexicographic by code point.
RECURSIVE str_lt(_, _)
str_lt(a, b) ==
    IF b = <<>> THEN FALSE
    ELSE IF a = <<>> THEN TRUE
    ELSE IF Head(a) # Head(b) THEN Head(a) < Head(b)
    ELSE str_lt(Tail(a), Tail(b))

(***************************************************************************)
(* The language table and the lexical source.                              *)
(***************************************************************************)
language_codes ==
    << "eng", "spa", "fra", "ita", "por", "nld", "pol", "swe", "fin", "nno",
       "nob", "ron", "slk", "slv", "zsm", "eus", "cat", "dan", "lit" >>

language_names ==
    [c \in Range(language_codes) |->
        CASE c = "eng" -> "English"
          [] c = "spa" -> "Spanish"
          [] c = "fra" -> "French"
          [] c = "ita" -> "Italian"
          [] c = "por" -> "Portuguese"
          [] c = "nld" -> "Dutch"
          [] c = "pol" -> "Polish"
          [] c = "swe" -> "Swedish"
          [] c = "fin" -> "Finnish"
          [] c = "nno" -> "Norwegian Nynorsk"
          [] c = "nob" -> "Norwegian Bokmal"   \* not ASCII in the source
          [] c = "ron" -> "Romanian"
          [] c = "slk" -> "Slovak"
          [] c = "slv" -> "Slovenian"
          [] c = "zsm" -> "Malay"
          [] c = "eus" -> "Basque"
          [] c = "cat" -> "Catalan"
          [] c = "dan" -> "Danish"
          [] c = "lit" -> "Lithuanian"]

\* dict.get(key, default).
dict_get(d, key, default) == IF key \in DOMAIN d THEN d[key] ELSE default

\* Words, as code points.
w_cat == <<99, 97, 116>>
w_ox == <<111, 120>>
w_wolf == <<119, 111, 108, 102>>
w_Cat == <<67, 97, 116>>
w_cafe == <<99, 97, 102, 233>>
w_ice_cream == <<105, 99, 101, 95, 99, 114, 101, 97, 109>>
w_gato == <<103, 97, 116, 111>>

\* One language of the corpus: the lemma names its synsets hold, in the
\* order all_synsets() yields them, and whether the query raises, after how
\* many lemmas.
Lemmas(names) == [lemmas |-> names, raises |-> FALSE, yielded |-> 0]

Raising(names, n) == [lemmas |-> names, raises |-> TRUE, yielded |-> n]

Corpus(given) ==
    [c \in Range(language_codes) |->
        IF c \in DOMAIN given THEN given[c] ELSE Lemmas(<<>>)]

\* The corpora the model is run against.
CorpusAllEmpty == Corpus(<<>>)

CorpusCatOxWolf == Corpus([c \in {"eng"} |-> Lemmas(<<w_cat, w_ox, w_wolf>>)])

\* English holds a multiword lemma and a capitalized one; the Spanish query
\* raises at once; the French one raises after two lemmas, one of them
\* not ASCII.
CorpusRaising ==
    Corpus([c \in {"eng", "spa", "fra"} |->
        IF c = "eng" THEN Lemmas(<<w_ice_cream, w_Cat>>)
        ELSE IF c = "spa" THEN Raising(<<w_gato>>, 0)
        ELSE Raising(<<w_cafe, w_cat, w_wolf>>, 2)])

Corpora == {CorpusAllEmpty, CorpusCatOxWolf, CorpusRaising}

(***************************************************************************)
(* The Tk selections.                                                      *)
(***************************************************************************)
CaseStyles == {"capitalize", "lowercase", "uppercase"}

NumberStyles == {"none", "1digit", "2digit", "3digit"}

\* random.randint(a, b): the values it may return.
randint(a, b) == a..b

\* The values of the random source the batch runs are explored with, and
\* those the formatter is exercised with on its own.
BatchDraws == {7}

CallDraws == {0, 5, 9, 10, 42, 99, 100, 512, 999}

\* The characters of the words the filter and the formatter are exercised
\* with on their own: "5", "Z", "a", DEL, the first non-ASCII code point,
\* sharp s.
Chars == {53, 90, 97, 127, 128, 223}

RECURSIVE WordsOfLen(_)
WordsOfLen(n) ==
    IF n = 0 THEN {<<>>}
    ELSE {<<c>> \o w : c \in Chars, w \in WordsOfLen(n - 1)}

Words == UNION {WordsOfLen(n) : n \in 0..MaxLen}

VARIABLES
    wordnet,      \* the corpus: language code -> lemma names and failure
    case_var,     \* self.case_var
    number_var,   \* self.number_var
    tree,         \* self.tree: the rows of the results table, in order
    selects,      \* radio-button selections made so far
    started,      \* background runs started so far
    pc,           \* each run's position in generate_usernames
    i,            \* each run's loop counter
    usernames,    \* each run's local list of (username, language name)
    todel,        \* each run's tree.get_children() result, yet to delete
    k,            \* each run's position in the insertion loop
    err,          \* the exception that ended a run, if any
    errLang,      \* the language code of the draw that raised it
    drawn,        \* history: each run's draws, in draw order
    cfg0,         \* history: the selections when each run was started
    call          \* a call of the filter or the formatter on its own

vars == << wordnet, case_var, number_var, tree, selects, started, pc, i, usernames,
           todel, k, err, errLang, drawn, cfg0, call >>

batch_vars == << tree, started, pc, i, usernames, todel, k, err, errLang,
                 drawn, cfg0 >>

(***************************************************************************)
(* The core: lookup, filter, formatter.                                    *)
(***************************************************************************)
\* get_words: the alphanumeric lemma names of the language; an exception
\* of the corpus is logged and the words collected so far are returned.
get_words(lang_code) ==
    LET src == wordnet[lang_code]
        seen == IF src.raises THEN SubSeq(src.lemmas, 1, src.yielded)
                ELSE src.lemmas
    IN SelectSeq(seen, isalnum)

\* all(ord(c) < 128 for c in word): false at the first character that is not.
RECURSIVE all_ascii(_)
all_ascii(word) ==
    IF word = <<>> THEN TRUE
    ELSE IF Head(word) < 128 THEN all_ascii(Tail(word)) ELSE FALSE

\* A filter that asks for more than min_len characters.
is_valid_word_longer(word, min_len) == all_ascii(word) /\ Len(word) > min_len

is_valid_word(word, min_len) == all_ascii(word) /\ Len(word) >= min_len

\* The default of is_valid_word's min_len.
DefaultMinLen == 3

is_valid_default(word) == is_valid_word(word, DefaultMinLen)

\* A draw that forgets the filter.
unfiltered_words(lang_code) == get_words(lang_code)

\* The list comprehension of generate_ascii_username.
valid_words(lang_code) == SelectSeq(get_words(lang_code), is_valid_default)

\* The random draws finalize_username may make under a number style, among
\* the explored values (no draw under style "none" and under an
\* unrecognized one: 0 stands for it).
suffix_draws(style, explored) ==
    IF style = "1digit" THEN randint(0, 9) \cap explored
    ELSE IF style = "2digit" THEN randint(0, 99) \cap explored
    ELSE IF style = "3digit" THEN randint(0, 999) \cap explored
    ELSE {0}

\* The body of finalize_username for a case style and a number style, r
\* being what random.randint returned.
format(word, case, style, r) ==
    LET cased == IF case = "lowercase" THEN lower(word)
                 ELSE IF case = "uppercase" THEN upper(word)
                 ELSE IF case = "capitalize" THEN capitalize(word)
                 ELSE word
    IN IF style = "1digit" THEN cased \o str(r)
       ELSE IF style = "2digit" THEN cased \o format_0d(r, 2)
       ELSE IF style = "3digit" THEN cased \o format_0d(r, 3)
       ELSE cased

\* finalize_username: the styles are read from the Tk variables at the call.
finalize_username(word, r) == format(word, case_var, number_var, r)

\* An append that skips a username the list already holds.
append_unseen(list, entry) ==
    IF \E n \in 1..Len(list) : list[n][1] = entry[1] THEN list
    ELSE Append(list, entry)

\* usernames.append(entry).
append(list, entry) == Append(list, entry)

\* A sort that keeps one entry per username.
RECURSIVE insert_sorted_unique(_, _)
insert_sorted_unique(e, sorted) ==
    IF sorted = <<>> THEN <<e>>
    ELSE IF e[1] = Head(sorted)[1] THEN sorted
    ELSE IF str_lt(e[1], Head(sorted)[1]) THEN <<e>> \o sorted
    ELSE <<Head(sorted)>> \o insert_sorted_unique(e, Tail(sorted))

\* A sort that leaves the list as it is.
sort_skipped(list) == list

\* list.sort(key=lambda x: x[0]): a stable sort by the username.
RECURSIVE insert_sorted(_, _)
insert_sorted(e, sorted) ==
    IF sorted = <<>> THEN <<e>>
    ELSE IF str_lt(e[1], Head(sorted)[1]) THEN <<e>> \o sorted
    ELSE <<Head(sorted)>> \o insert_sorted(e, Tail(sorted))

RECURSIVE sort(_)
sort(list) ==
    IF list = <<>> THEN <<>>
    ELSE insert_sorted(list[Len(list)], sort(SubSeq(list, 1, Len(list) - 1)))

(***************************************************************************)
(* The session: the state after UsernameGenerator.__init__.                *)
(***************************************************************************)
NoCall == [fn |-> "none"]

InitBatch ==
    /\ tree = <<>>
    /\ started = 0
    /\ pc = [t \in Runs |-> "idle"]
    /\ i = [t \in Runs |-> 0]
    /\ usernames = [t \in Runs |-> <<>>]
    /\ todel = [t \in Runs |-> <<>>]
    /\ k = [t \in Runs |-> 0]
    /\ err = [t \in Runs |-> "none"]
    /\ errLang = [t \in Runs |-> "none"]
    /\ drawn = [t \in Runs |-> <<>>]
    /\ cfg0 = [t \in Runs |-> <<"none", "none">>]

Init ==
    /\ wordnet \in Corpora
    /\ case_var = "lowercase"
    /\ number_var = "none"
    /\ selects = 0
    /\ InitBatch
    /\ call = NoCall

(***************************************************************************)
(* The user interface: the radio buttons and the Generate button.          *)
(***************************************************************************)
\* A radio button of the "Username Case" frame.
SelectCase(value) ==
    /\ selects < MaxSelects
    /\ value # case_var
    /\ case_var' = value
    /\ selects' = selects + 1
    /\ UNCHANGED << wordnet, number_var, batch_vars, call >>

\* A radio button of the "Number Style" frame.
SelectNumber(value) ==
    /\ selects < MaxSelects
    /\ value # number_var
    /\ number_var' = value
    /\ selects' = selects + 1
    /\ UNCHANGED << wordnet, case_var, batch_vars, call >>

\* start_generation_thread: the Generate button starts one more run,
\* whatever the earlier runs are doing.
start_generation_thread(t) ==
    /\ t = started + 1
    /\ pc[t] = "idle"
    /\ started' = t
    /\ pc' = [pc EXCEPT ![t] = "clear"]
    /\ cfg0' = [cfg0 EXCEPT ![t] = <<case_var, number_var>>]
    /\ UNCHANGED << wordnet, case_var, number_var, selects, tree, i, usernames, todel,
                    k, err, errLang, drawn, call >>

(***************************************************************************)
(* generate_usernames, one Tk call or one loop iteration at a time.        *)
(***************************************************************************)
\* self.tree.get_children(): the ids of the rows now in the table.
get_children(t) ==
    /\ pc[t] = "clear"
    /\ todel' = [todel EXCEPT ![t] = [n \in 1..Len(tree) |-> tree[n].id]]
    /\ pc' = [pc EXCEPT ![t] = IF tree = <<>> THEN "loop" ELSE "delete"]
    /\ UNCHANGED << wordnet, case_var, number_var, selects, tree, started, i, usernames,
                    k, err, errLang, drawn, cfg0, call >>

\* tree with the row of the given id removed.
without(rows, id) == SelectSeq(rows, LAMBDA row : row.id # id)

\* self.tree.delete(row): Tk raises TclError for a row that is gone.
tree_delete(t) ==
    /\ pc[t] = "delete"
    /\ LET id == Head(todel[t])
       IN IF \E n \in 1..Len(tree) : tree[n].id = id
          THEN /\ tree' = without(tree, id)
               /\ todel' = [todel EXCEPT ![t] = Tail(@)]
               /\ pc' = [pc EXCEPT ![t] =
                            IF Tail(todel[t]) = <<>> THEN "loop" ELSE "delete"]
               /\ err' = err
          ELSE /\ pc' = [pc EXCEPT ![t] = "failed"]
               /\ err' = [err EXCEPT ![t] = "TclError"]
               /\ UNCHANGED << tree, todel >>
    /\ UNCHANGED << wordnet, case_var, number_var, selects, started, i, usernames, k,
                    errLang, drawn, cfg0, call >>

\* One iteration of the loop: random.choice(self.language_codes),
\* generate_ascii_username, usernames.append. random.choice of an empty
\* list raises IndexError, which ends the run.
draw(t) ==
    /\ pc[t] = "loop"
    /\ \E n \in 1..Len(language_codes) :
         LET lang_code == language_codes[n]
             valid == valid_words(lang_code)
         IN IF valid = <<>>
            THEN /\ pc' = [pc EXCEPT ![t] = "failed"]
                 /\ err' = [err EXCEPT ![t] = "IndexError"]
                 /\ errLang' = [errLang EXCEPT ![t] = lang_code]
                 /\ UNCHANGED << i, usernames, drawn >>
            ELSE \E m \in 1..Len(valid) :
                 \E r \in suffix_draws(number_var, BatchDraws) :
                    LET username == finalize_username(valid[m], r)
                        entry == << username,
                                    dict_get(language_names, lang_code, lang_code) >>
                    IN /\ usernames' = [usernames EXCEPT ![t] = append(@, entry)]
                       /\ drawn' = [drawn EXCEPT ![t] = Append(@,
                              [lang_code |-> lang_code, word |-> valid[m],
                               r |-> r, out |-> entry])]
                       /\ i' = [i EXCEPT ![t] = @ + 1]
                       /\ pc' = [pc EXCEPT ![t] =
                                    IF i[t] + 1 = total THEN "sort" ELSE "loop"]
                       /\ UNCHANGED << err, errLang >>
    /\ UNCHANGED << wordnet, case_var, number_var, selects, tree, started, todel, k,
                    cfg0, call >>

\* usernames.sort(key=lambda x: x[0]).
sort_usernames(t) ==
    /\ pc[t] = "sort"
    /\ usernames' = [usernames EXCEPT ![t] = sort(@)]
    /\ k' = [k EXCEPT ![t] = 0]
    /\ pc' = [pc EXCEPT ![t] = "insert"]
    /\ UNCHANGED << wordnet, case_var, number_var, selects, tree, started, i, todel,
                    err, errLang, drawn, cfg0, call >>

\* self.tree.insert("", "end", values=...): one row, with a fresh id.
tree_insert(t) ==
    /\ pc[t] = "insert"
    /\ tree' = Append(tree, [id |-> <<t, k[t] + 1>>,
                             values |-> usernames[t][k[t] + 1]])
    /\ k' = [k EXCEPT ![t] = @ + 1]
    /\ pc' = [pc EXCEPT ![t] =
                 IF k[t] + 1 = Len(usernames[t]) THEN "done" ELSE "insert"]
    /\ UNCHANGED << wordnet, case_var, number_var, selects, started, i, usernames,
                    todel, err, errLang, drawn, cfg0, call >>

Next ==
    \/ \E value \in CaseStyles : SelectCase(value)
    \/ \E value \in NumberStyles : SelectNumber(value)
    \/ \E t \in Runs : start_generation_thread(t)
    \/ \E t \in Runs : get_children(t)
    \/ \E t \in Runs : tree_delete(t)
    \/ \E t \in Runs : draw(t)
    \/ \E t \in Runs : sort_usernames(t)
    \/ \E t \in Runs : tree_insert(t)

Spec == Init /\ [][Next]_vars

(***************************************************************************)
(* One run and the user interface. The list a run builds, sorts and        *)
(* inserts is local to it: the only state it reads that anything else      *)
(* writes is the two selections, so one run beside the radio buttons shows *)
(* everything that can happen to that list.                                *)
(***************************************************************************)
FirstRun == {t \in Runs : t = 1}

NextRun ==
    \/ \E value \in CaseStyles : SelectCase(value)
    \/ \E value \in NumberStyles : SelectNumber(value)
    \/ \E t \in FirstRun : start_generation_thread(t)
    \/ \E t \in FirstRun : get_children(t)
    \/ \E t \in FirstRun : draw(t)
    \/ \E t \in FirstRun : sort_usernames(t)
    \/ \E t \in FirstRun : tree_insert(t)

SpecRun == Init /\ [][NextRun]_vars

(***************************************************************************)
(* The filter and the formatter on their own, on every word of Words.      *)
(***************************************************************************)
FilterCalls ==
    [fn : {"is_valid_word"}, word : Words, min_len : 0..MaxMinLen, r : {0},
     done : {FALSE}, result : {"none"}]

FormatterCalls(style) ==
    [fn : {"finalize_username"}, word : Words, min_len : {0},
     r : suffix_draws(style, CallDraws), done : {FALSE}, result : {"none"}]

InitCall ==
    /\ wordnet = CorpusAllEmpty
    /\ selects = 0
    /\ InitBatch
    /\ \/ /\ case_var = "lowercase"
          /\ number_var = "none"
          /\ call \in FilterCalls
       \/ /\ case_var \in CaseStyles \cup {"other"}
          /\ number_var \in NumberStyles \cup {"other"}
          /\ call \in FormatterCalls(number_var)

call_is_valid_word ==
    /\ call.fn = "is_valid_word"
    /\ ~call.done
    /\ call' = [call EXCEPT !.done = TRUE,
                            !.result = is_valid_word(call.word, call.min_len)]
    /\ UNCHANGED << wordnet, case_var, number_var, selects, batch_vars >>

call_finalize_username ==
    /\ call.fn = "finalize_username"
    /\ ~call.done
    /\ call' = [call EXCEPT !.done = TRUE,
                            !.result = finalize_username(call.word, call.r)]
    /\ UNCHANGED << wordnet, case_var, number_var, selects, batch_vars >>

NextCall == call_is_valid_word \/ call_finalize_username

SpecCall == InitCall /\ [][NextCall]_vars

(***************************************************************************)
(* Vocabulary of the properties.                                           *)
(***************************************************************************)
Started == 1..started

\* Every character below 128 and at least min_len of them.
AsciiOfLen(word, min_len) ==
    /\ \A n \in 1..Len(word) : word[n] <= 127
    /\ Len(word) >= min_len

\* x <= y in lexicographic code-point order: the two agree on a prefix,
\* after which x ends or holds the smaller character.
LexLeq(x, y) ==
    \E n \in 0..Len(x) :
        /\ n <= Len(y)
        /\ \A m \in 1..n : x[m] = y[m]
        /\ \/ n = Len(x)
           \/ n < Len(y) /\ x[n + 1] < y[n + 1]

\* A list of (username, language name) entries in ascending username order.
Ascending(list) ==
    \A a, b \in 1..Len(list) : a < b => LexLeq(list[a][1], list[b][1])

\* The (username, language name) values of the table's rows, and of the
\* rows one run inserted.
Values(rows) == [n \in 1..Len(rows) |-> rows[n].values]

RowsOf(t) == SelectSeq(tree, LAMBDA row : row.id[1] = t)

\* How often an entry occurs in a list.
Count(list, e) == Cardinality({n \in 1..Len(list) : list[n] = e})

\* The entries a run drew, in draw order.
Outs(t) == [n \in 1..Len(drawn[t]) |-> drawn[t][n].out]

IsDigits(s) == \A n \in 1..Len(s) : s[n] \in 48..57

\* The characters of s after the first n.
From(s, n) == SubSeq(s, n + 1, Len(s))

\* The digits each number style appends.
Width(style) ==
    CASE style = "none" -> 0
      [] style = "1digit" -> 1
      [] style = "2digit" -> 2
      [] style = "3digit" -> 3

NoLanguageHasValidWord ==
    \A c \in Range(language_codes) :
        \A n \in 1..Len(wordnet[c].lemmas) :
            ~AsciiOfLen(wordnet[c].lemmas[n], DefaultMinLen)

(***************************************************************************)
(* C1: when no configured language has a valid word, a batch run ends in   *)
(* an explicit NoValidWordsError, never in an unrelated internal failure.  *)
(* The code ends it in the IndexError of random.choice([]).                *)
(***************************************************************************)
C1_AllEmptyEndsInNoValidWordsError ==
    \A t \in Runs :
        (NoLanguageHasValidWord /\ pc[t] = "failed")
            => err[t] = "NoValidWordsError"

(***************************************************************************)
(* C2: a lookup failure for the language of a draw does not end the batch  *)
(* when another configured language has a valid word. The code returns the *)
(* words collected before the failure, and ends the batch when none of     *)
(* them is valid.                                                          *)
(***************************************************************************)
C2_LookupFailureDoesNotEndBatch ==
    \A t \in Runs :
        (pc[t] = "failed" /\ errLang[t] # "none")
            => ~ /\ wordnet[errLang[t]].raises
                 /\ \E c \in Range(language_codes) \ {errLang[t]} :
                        valid_words(c) # <<>>

(***************************************************************************)
(* C3: a batch run that completes holds exactly `total` entries, one per   *)
(* draw, and has inserted as many rows.                                    *)
(***************************************************************************)
C3_CompletedBatchHasTotalEntries ==
    \A t \in Runs :
        pc[t] = "done"
            => /\ Len(usernames[t]) = total
               /\ Len(drawn[t]) = total
               /\ k[t] = total

C3_Witness ==
    \E t \in Runs :
        /\ pc[t] = "done"
        /\ Len(RowsOf(t)) = total
        /\ usernames[t][1] = usernames[t][2]

(***************************************************************************)
(* C4: once sorted, the list of a batch run, and the rows the run has      *)
(* inserted into the table, in insertion order, are non-decreasing by      *)
(* username in lexicographic code-point order, whatever the draw order.    *)
(***************************************************************************)
C4_ResultAscendingByUsername ==
    \A t \in Runs :
        pc[t] \in {"insert", "done"}
            => /\ Ascending(usernames[t])
               /\ Ascending(Values(RowsOf(t)))

C4_Witness ==
    \E t \in Runs :
        /\ pc[t] = "done"
        /\ ~Ascending(Outs(t))
        /\ Values(tree) = usernames[t]

(***************************************************************************)
(* C5: every username of a batch is formatted with the case style and the  *)
(* number style selected when the batch was started, even if the selection *)
(* changes while it runs. The code reads both selections at every draw.    *)
(***************************************************************************)
C5_BatchUsesSelectionsAtStart ==
    \A t \in Runs :
        \A n \in 1..Len(drawn[t]) :
            drawn[t][n].out[1] =
                format(drawn[t][n].word, cfg0[t][1], cfg0[t][2], drawn[t][n].r)

(***************************************************************************)
(* C6, as claimed: no two entries of a completed batch carry the same      *)
(* username.                                                               *)
(***************************************************************************)
C6_NoTwoEntriesShareUsername ==
    \A t \in Runs :
        pc[t] = "done"
            => \A a, b \in 1..Len(usernames[t]) :
                   a # b => usernames[t][a][1] # usernames[t][b][1]

(***************************************************************************)
(* C6, amended: the sorted list of a batch keeps one entry for every draw: *)
(* it is a permutation of the entries drawn, repeated usernames included.  *)
(***************************************************************************)
C6_ResultKeepsEveryDraw ==
    \A t \in Runs :
        pc[t] \in {"insert", "done"}
            => /\ Len(usernames[t]) = Len(drawn[t])
               /\ \A e \in Range(Outs(t)) :
                      Count(usernames[t], e) = Count(Outs(t), e)

C6_Witness ==
    \E t \in Runs :
        /\ pc[t] = "done"
        /\ \E a, b \in 1..Len(usernames[t]) :
               a # b /\ usernames[t][a][1] = usernames[t][b][1]

(***************************************************************************)
(* C7: every entry of a batch is built from a lemma of the language chosen *)
(* in its draw that is ASCII-only and at least 3 long: the username is     *)
(* that word, in some case, followed by at most three digits, and the      *)
(* display name is the table entry of that language. With "cat", "ox" and  *)
(* "wolf" in English and nothing elsewhere, the word is "cat" or "wolf".   *)
(***************************************************************************)
C7_EntriesComeFromValidWords ==
    \A t \in Runs :
        /\ \A n \in 1..Len(drawn[t]) :
             LET d == drawn[t][n]
                 username == d.out[1]
             IN /\ d.word \in Range(wordnet[d.lang_code].lemmas)
                /\ AsciiOfLen(d.word, DefaultMinLen)
                /\ Len(username) \in Len(d.word)..(Len(d.word) + 3)
                /\ lower(SubSeq(username, 1, Len(d.word))) = lower(d.word)
                /\ IsDigits(From(username, Len(d.word)))
                /\ d.out[2] = language_names[d.lang_code]
                /\ wordnet = CorpusCatOxWolf
                     => d.word \in {w_cat, w_wolf} /\ d.out[2] = "English"
        /\ Range(usernames[t]) \subseteq Range(Outs(t))
        /\ Range(Values(RowsOf(t))) \subseteq Range(Outs(t))

C7_Witness ==
    \E t \in Runs :
        /\ wordnet = CorpusCatOxWolf
        /\ pc[t] = "done"
        /\ \E n \in 1..Len(tree) : tree[n].values = << <<87, 79, 76, 70>>, "English" >>

(***************************************************************************)
(* C8: is_valid_word(word, min_len) is true exactly when every character   *)
(* of word is below 128 and word has at least min_len characters; it       *)
(* answers for every word, the empty one included.                         *)
(***************************************************************************)
C8_FilterIffAsciiAndLongEnough ==
    (call.fn = "is_valid_word" /\ call.done)
        => /\ call.result \in BOOLEAN
           /\ call.result = AsciiOfLen(call.word, call.min_len)

C8_Witness ==
    /\ call.fn = "is_valid_word"
    /\ call.done
    /\ call.word = <<97, 127, 53>>
    /\ call.min_len = DefaultMinLen
    /\ call.result = TRUE

(***************************************************************************)
(* C9: the formatter's output is the case-transformed word (the word       *)
(* itself under an unrecognized case style) followed by exactly 0, 1, 2, 3 *)
(* decimal digits under number style none, 1digit, 2digit, 3digit.         *)
(***************************************************************************)
C9_OutputIsCasedWordPlusDigits ==
    (call.fn = "finalize_username" /\ call.done /\ number_var \in NumberStyles)
        => LET cased == CASE case_var = "lowercase" -> lower(call.word)
                          [] case_var = "uppercase" -> upper(call.word)
                          [] case_var = "capitalize" -> capitalize(call.word)
                          [] OTHER -> call.word
               width == Width(number_var)
           IN /\ Len(call.result) = Len(cased) + width
              /\ SubSeq(call.result, 1, Len(cased)) = cased
              /\ IsDigits(From(call.result, Len(cased)))
              /\ number_var = "none" => call.result = cased

C9_Witness ==
    /\ call.fn = "finalize_username"
    /\ call.done
    /\ case_var = "uppercase"
    /\ number_var = "3digit"
    /\ call.word = <<97, 223>>
    /\ call.r = 5
    /\ call.result = <<65, 83, 83, 48, 48, 53>>

(***************************************************************************)
(* C10: once every started run has finished without failure, the table    *)
(* holds exactly the `total` rows of a single run, in ascending username   *)
(* order. Two runs in flight both clear the table before either inserts.   *)
(***************************************************************************)
C10_TableHoldsOneRun ==
    (started >= 1 /\ \A t \in Started : pc[t] = "done")
        => /\ Len(tree) = total
           /\ \E t \in Started : Values(tree) = usernames[t]
           /\ Ascending(Values(tree))

====
